---- MODULE Spec2Model ----
(***************************************************************************)
(* Boilermaker 146 weekly deductions engine: calculator.js (options-record *)
(* engine) and unnamed/part_000 (fixed-dues engine, bare mode string).     *)
(*                                                                         *)
(* Arithmetic.  The engines compute with JavaScript numbers.  The model    *)
(* computes the same expressions in exact arithmetic: a finite amount is   *)
(* an integer count of units of 1/(52 * 10^9) dollar, which makes every    *)
(* product by a rate and every division by 52 in the pipeline exact for    *)
(* inputs given in whole cents.  The counts exceed the 32-bit integers of  *)
(* the model checker, so a count is kept as a sign and a little-endian     *)
(* sequence of base-10^4 limbs.  NaN (the value a missing taxableWeekly    *)
(* turns into) is a separate kind that propagates as in JavaScript.        *)
(***************************************************************************)
EXTENDS Integers, Sequences, FiniteSets, TLC

\* the limb base of the amounts (a representation choice, not a program value)
BASE == 10 ^ 4

(* ---------------- magnitudes: little-endian limb sequences -------------- *)

At(m, i) == IF i <= Len(m) THEN m[i] ELSE 0

RECURSIVE MagStrip(_)
MagStrip(m) ==
  IF m = <<>> THEN <<>>
  ELSE IF m[Len(m)] = 0 THEN MagStrip(SubSeq(m, 1, Len(m) - 1)) ELSE m

RECURSIVE MagFromNat(_)
MagFromNat(n) == IF n = 0 THEN <<>> ELSE <<n % BASE>> \o MagFromNat(n \div BASE)

RECURSIVE MagAddFrom(_, _, _, _)
MagAddFrom(a, b, i, carry) ==
  IF i > Len(a) /\ i > Len(b)
  THEN (IF carry = 0 THEN <<>> ELSE <<carry>>)
  ELSE LET s == At(a, i) + At(b, i) + carry
       IN  <<s % BASE>> \o MagAddFrom(a, b, i + 1, s \div BASE)

MagAdd(a, b) == MagAddFrom(a, b, 1, 0)

RECURSIVE MagSubFrom(_, _, _, _)
MagSubFrom(a, b, i, borrow) ==
  IF i > Len(a) THEN <<>>
  ELSE LET d == At(a, i) - At(b, i) - borrow
       IN  IF d < 0 THEN <<d + BASE>> \o MagSubFrom(a, b, i + 1, 1)
                    ELSE <<d>> \o MagSubFrom(a, b, i + 1, 0)

\* a - b for a >= b
MagSub(a, b) == MagStrip(MagSubFrom(a, b, 1, 0))

RECURSIVE MagCmpFrom(_, _, _)
MagCmpFrom(a, b, i) ==
  IF i = 0 THEN 0
  ELSE IF a[i] < b[i] THEN -1
  ELSE IF a[i] > b[i] THEN 1
  ELSE MagCmpFrom(a, b, i - 1)

\* -1, 0, 1 as a < b, a = b, a > b (stripped magnitudes)
MagCmp(a, b) ==
  IF Len(a) < Len(b) THEN -1
  ELSE IF Len(a) > Len(b) THEN 1
  ELSE MagCmpFrom(a, b, Len(a))

RECURSIVE MagMulFrom(_, _, _, _)
MagMulFrom(a, c, i, carry) ==
  IF i > Len(a) THEN MagFromNat(carry)
  ELSE LET p == a[i] * c + carry
       IN  <<p % BASE>> \o MagMulFrom(a, c, i + 1, p \div BASE)

\* a * c for a natural c <= 10^5
MagMulSmall(a, c) == MagStrip(MagMulFrom(a, c, 1, 0))

RECURSIVE MagDivFrom(_, _, _, _)
\* long division from the top limb down; the result is <<quotient limbs
\* (big-endian order reversed back to little-endian), remainder>>
MagDivFrom(a, c, i, rem) ==
  IF i = 0 THEN [q |-> <<>>, r |-> rem]
  ELSE LET cur  == rem * BASE + a[i]
           rest == MagDivFrom(a, c, i - 1, cur % c)
       IN  [q |-> rest.q \o <<cur \div c>>, r |-> rest.r]

\* a divided by a natural c <= 10^5: quotient and remainder
MagDivSmall(a, c) ==
  LET d == MagDivFrom(a, c, Len(a), 0)
  IN  [q |-> MagStrip(d.q), r |-> d.r]

(* ---------------- JavaScript numbers ------------------------------------ *)
\* k = "num": the finite amount (neg ? -1 : 1) * mag units;
\* k = "inf": +Infinity or -Infinity (a bracket's unbounded limit);
\* k = "nan": NaN;  k = "inexact": a quotient that is not a whole number of
\* units (never produced for inputs in whole cents, see ArithmeticExact).

Num(neg, mag) == [k |-> "num", neg |-> (neg /\ mag # <<>>), mag |-> mag]
NaN == [k |-> "nan", neg |-> FALSE, mag |-> <<>>]
Inexact == [k |-> "inexact", neg |-> FALSE, mag |-> <<>>]
Inf(neg) == [k |-> "inf", neg |-> neg, mag |-> <<>>]
Infinity == Inf(FALSE)
Zero == Num(FALSE, <<>>)

IsNum(x) == x.k = "num"
IsNaN(x) == x.k = "nan"
Undefined(x, y) == x.k \in {"nan", "inexact"} \/ y.k \in {"nan", "inexact"}
Poison(x, y) == IF x.k = "inexact" \/ y.k = "inexact" THEN Inexact ELSE NaN

FromInt(n) == IF n < 0 THEN Num(TRUE, MagFromNat(-n)) ELSE Num(FALSE, MagFromNat(n))

Neg(x) ==
  IF x.k = "num" THEN Num(~x.neg, x.mag)
  ELSE IF x.k = "inf" THEN Inf(~x.neg)
  ELSE x

\* -1, 0, 1 as x < y, x = y, x > y, for x and y finite or infinite
Cmp(x, y) ==
  IF x.k = "inf" \/ y.k = "inf"
  THEN IF x.k = "inf" /\ y.k = "inf"
       THEN (IF x.neg = y.neg THEN 0 ELSE IF x.neg THEN -1 ELSE 1)
       ELSE IF x.k = "inf" THEN (IF x.neg THEN -1 ELSE 1)
       ELSE (IF y.neg THEN 1 ELSE -1)
  ELSE IF x.neg /\ ~y.neg THEN -1
  ELSE IF ~x.neg /\ y.neg THEN 1
  ELSE IF x.neg THEN MagCmp(y.mag, x.mag)
  ELSE MagCmp(x.mag, y.mag)

\* the comparisons of the language: false as soon as one side is NaN
Lt(x, y) == ~Undefined(x, y) /\ Cmp(x, y) < 0
Le(x, y) == ~Undefined(x, y) /\ Cmp(x, y) <= 0
Gt(x, y) == ~Undefined(x, y) /\ Cmp(x, y) > 0
Ge(x, y) == ~Undefined(x, y) /\ Cmp(x, y) >= 0
Eq(x, y) == ~Undefined(x, y) /\ Cmp(x, y) = 0

\* x + y
Add(x, y) ==
  IF Undefined(x, y) THEN Poison(x, y)
  ELSE IF x.k = "inf" \/ y.k = "inf"
  THEN IF x.k = "inf" /\ y.k = "inf"
       THEN (IF x.neg = y.neg THEN x ELSE NaN)
       ELSE IF x.k = "inf" THEN x ELSE y
  ELSE IF x.neg = y.neg THEN Num(x.neg, MagAdd(x.mag, y.mag))
  ELSE IF MagCmp(x.mag, y.mag) >= 0 THEN Num(x.neg, MagSub(x.mag, y.mag))
  ELSE Num(y.neg, MagSub(y.mag, x.mag))

\* x - y
Sub(x, y) == Add(x, Neg(y))

\* x * c for a natural c <= 10^5
MulInt(x, c) ==
  IF x.k \in {"nan", "inexact"} THEN x
  ELSE IF x.k = "inf" THEN (IF c = 0 THEN NaN ELSE x)
  ELSE Num(x.neg, MagMulSmall(x.mag, c))

\* x / c for a natural c in 1..10^5
DivInt(x, c) ==
  IF x.k # "num" THEN x
  ELSE LET d == MagDivSmall(x.mag, c)
       IN  IF d.r = 0 THEN Num(x.neg, d.q) ELSE Inexact

\* Math.min(x, y), Math.max(x, y)
MathMin(x, y) == IF Undefined(x, y) THEN Poison(x, y) ELSE IF Cmp(x, y) <= 0 THEN x ELSE y
MathMax(x, y) == IF Undefined(x, y) THEN Poison(x, y) ELSE IF Cmp(x, y) >= 0 THEN x ELSE y

\* amounts: n dollars, c cents, as counts of units of 1/(52 * 10^9) dollar
Dollars(n) == MulInt(MulInt(MulInt(FromInt(n), 52), 10000), 100000)
Cents(c) == MulInt(MulInt(MulInt(FromInt(c), 52), 10000), 1000)

\* x * rate, the rate written in ten-thousandths: 0.0595 is 595
MulRate(x, rate) == DivInt(MulInt(x, rate), 10000)

(* ---------------- 1. constants (2025) ----------------------------------- *)
\* rates in ten-thousandths, ceilings in dollars, maxima in cents

CPP_RATE == 595
CPP_YMPE == 71300
CPP_BASIC_EXEMPTION == 3500
CPP_MAX_CONTRIB == 403410

CPP2_RATE == 400
CPP2_YAMPE == 81200
CPP2_MAX_CONTRIB == 39600

EI_RATE == 164
EI_MAX_INSURABLE == 65700
EI_MAX_CONTRIB == 107748

Bracket(limit, rate) == [limit |-> limit, rate |-> rate]

FED_BRACKETS_2025 ==
  << Bracket(Dollars(57375), 1500),
     Bracket(Dollars(114750), 2050),
     Bracket(Dollars(177882), 2600),
     Bracket(Dollars(253414), 2900),
     Bracket(Infinity, 3300) >>

FED_BPA == 16129
FED_CREDIT_RATE == 1450

AB_BRACKETS_2025 ==
  << Bracket(Dollars(60000), 800),
     Bracket(Dollars(151234), 1000),
     Bracket(Dollars(181481), 1200),
     Bracket(Dollars(241974), 1300),
     Bracket(Dollars(362961), 1400),
     Bracket(Infinity, 1500) >>

AB_BPA == 22323
AB_CREDIT_RATE == 800

DEFAULT_UNION_DUES_RATE == 375
UNION_DUES_RATE == 375

weeksPerYear == 52

(* ---------------- 2. helpers -------------------------------------------- *)

\* the loop body with `tax = ...` for `tax += ...`: only the last slice is taxed
BracketStep_Assign(st, bracket) ==
  IF st.brk THEN st
  ELSE IF Le(st.remaining, Zero) THEN [st EXCEPT !.brk = TRUE]
  ELSE LET taxableAtThisRate == MathMin(st.remaining, Sub(bracket.limit, st.lastLimit))
       IN  IF Gt(taxableAtThisRate, Zero)
           THEN [remaining |-> Sub(st.remaining, taxableAtThisRate),
                 lastLimit |-> bracket.limit,
                 tax       |-> MulRate(taxableAtThisRate, bracket.rate),
                 brk       |-> FALSE]
           ELSE st

\* the loop body without `lastLimit = bracket.limit`: every slice is measured
\* from 0
BracketStep_NoLastLimit(st, bracket) ==
  IF st.brk THEN st
  ELSE IF Le(st.remaining, Zero) THEN [st EXCEPT !.brk = TRUE]
  ELSE LET taxableAtThisRate == MathMin(st.remaining, Sub(bracket.limit, st.lastLimit))
       IN  IF Gt(taxableAtThisRate, Zero)
           THEN [remaining |-> Sub(st.remaining, taxableAtThisRate),
                 lastLimit |-> st.lastLimit,
                 tax       |-> Add(st.tax, MulRate(taxableAtThisRate, bracket.rate)),
                 brk       |-> FALSE]
           ELSE st

\* one pass of the loop body of applyProgressiveTax over `bracket`;
\* st.brk records that the loop has left through `break`
BracketStep(st, bracket) ==
  IF st.brk THEN st
  ELSE IF Le(st.remaining, Zero) THEN [st EXCEPT !.brk = TRUE]
  ELSE LET taxableAtThisRate == MathMin(st.remaining, Sub(bracket.limit, st.lastLimit))
       IN  IF Gt(taxableAtThisRate, Zero)
           THEN [remaining |-> Sub(st.remaining, taxableAtThisRate),
                 lastLimit |-> bracket.limit,
                 tax       |-> Add(st.tax, MulRate(taxableAtThisRate, bracket.rate)),
                 brk       |-> FALSE]
           ELSE st

LoopStart(annualIncome) ==
  [remaining |-> annualIncome, lastLimit |-> Zero, tax |-> Zero, brk |-> FALSE]

RECURSIVE LoopFrom(_, _, _)
LoopFrom(st, brackets, i) ==
  IF i > Len(brackets) THEN st
  ELSE LoopFrom(BracketStep(st, brackets[i]), brackets, i + 1)

applyProgressiveTax(annualIncome, brackets) ==
  LoopFrom(LoopStart(annualIncome), brackets, 1).tax

clamp(value, minVal, maxVal) == MathMax(minVal, MathMin(maxVal, value))

\* a `const` declaration: Body of the value of v, v evaluated once
With(v, Body(_)) == CHOOSE r \in {Body(x) : x \in {v}} : TRUE

(* ---------------- 3. CPP / CPP2 / EI ------------------------------------- *)

Contrib(cpp, cpp2, ei) == [cpp |-> cpp, cpp2 |-> cpp2, ei |-> ei]

\* the "early-year" branch of calculator.js without the per-week CPP maximum
EarlyYearBranch_NoCppCap(taxableWeekly) ==
  LET annualEarnings == MulInt(taxableWeekly, weeksPerYear)
      cppEarningsWeekly ==
        MathMax(Zero, Sub(taxableWeekly, DivInt(Dollars(CPP_BASIC_EXEMPTION), weeksPerYear)))
      cppWeekly == MulRate(cppEarningsWeekly, CPP_RATE)
      excessEarningsAnnual ==
        clamp(Sub(annualEarnings, Dollars(CPP_YMPE)), Zero, Dollars(CPP2_YAMPE - CPP_YMPE))
      cpp2Annual       == MulRate(excessEarningsAnnual, CPP2_RATE)
      cpp2AnnualCapped == MathMin(cpp2Annual, Cents(CPP2_MAX_CONTRIB))
      cpp2Weekly ==
        IF Gt(annualEarnings, Dollars(CPP_YMPE))
        THEN DivInt(cpp2AnnualCapped, weeksPerYear) ELSE Zero
      eiEarningsWeekly ==
        MathMin(taxableWeekly, DivInt(Dollars(EI_MAX_INSURABLE), weeksPerYear))
      eiWeeklyRaw == MulRate(eiEarningsWeekly, EI_RATE)
      eiWeeklyMax == DivInt(Cents(EI_MAX_CONTRIB), weeksPerYear)
      eiWeekly    == IF Gt(eiWeeklyRaw, eiWeeklyMax) THEN eiWeeklyMax ELSE eiWeeklyRaw
  IN  Contrib(cppWeekly, cpp2Weekly, eiWeekly)

\* the "early-year" branch of calculator.js
EarlyYearBranch(taxableWeekly) ==
  LET annualEarnings == MulInt(taxableWeekly, weeksPerYear)
      cppEarningsWeekly ==
        MathMax(Zero, Sub(taxableWeekly, DivInt(Dollars(CPP_BASIC_EXEMPTION), weeksPerYear)))
      cppWeeklyRaw == MulRate(cppEarningsWeekly, CPP_RATE)
      cppWeeklyMax == DivInt(Cents(CPP_MAX_CONTRIB), weeksPerYear)
      cppWeekly    == IF Gt(cppWeeklyRaw, cppWeeklyMax) THEN cppWeeklyMax ELSE cppWeeklyRaw
      excessEarningsAnnual ==
        clamp(Sub(annualEarnings, Dollars(CPP_YMPE)), Zero, Dollars(CPP2_YAMPE - CPP_YMPE))
      cpp2Annual       == MulRate(excessEarningsAnnual, CPP2_RATE)
      cpp2AnnualCapped == MathMin(cpp2Annual, Cents(CPP2_MAX_CONTRIB))
      cpp2Weekly ==
        IF Gt(annualEarnings, Dollars(CPP_YMPE))
        THEN DivInt(cpp2AnnualCapped, weeksPerYear) ELSE Zero
      eiEarningsWeekly ==
        MathMin(taxableWeekly, DivInt(Dollars(EI_MAX_INSURABLE), weeksPerYear))
      eiWeeklyRaw == MulRate(eiEarningsWeekly, EI_RATE)
      eiWeeklyMax == DivInt(Cents(EI_MAX_CONTRIB), weeksPerYear)
      eiWeekly    == IF Gt(eiWeeklyRaw, eiWeeklyMax) THEN eiWeeklyMax ELSE eiWeeklyRaw
  IN  Contrib(cppWeekly, cpp2Weekly, eiWeekly)

\* the "annualized" branch of calculator.js without the basic exemption: the
\* pensionable earnings are the annual earnings up to the ceiling
AnnualizedBranch_NoExemption(taxableWeekly) ==
  LET annualEarnings == MulInt(taxableWeekly, weeksPerYear)
      cppPensionableAnnual ==
        clamp(annualEarnings, Zero, Dollars(CPP_YMPE - CPP_BASIC_EXEMPTION))
      cppAnnualRaw == MulRate(cppPensionableAnnual, CPP_RATE)
      cppAnnual    == MathMin(cppAnnualRaw, Cents(CPP_MAX_CONTRIB))
      cppWeekly    == DivInt(cppAnnual, weeksPerYear)
      cpp2BaseAnnual ==
        clamp(Sub(annualEarnings, Dollars(CPP_YMPE)), Zero, Dollars(CPP2_YAMPE - CPP_YMPE))
      cpp2AnnualRaw == MulRate(cpp2BaseAnnual, CPP2_RATE)
      cpp2Annual    == MathMin(cpp2AnnualRaw, Cents(CPP2_MAX_CONTRIB))
      cpp2Weekly ==
        IF Gt(annualEarnings, Dollars(CPP_YMPE))
        THEN DivInt(cpp2Annual, weeksPerYear) ELSE Zero
      eiInsurableAnnual == MathMin(annualEarnings, Dollars(EI_MAX_INSURABLE))
      eiAnnualRaw == MulRate(eiInsurableAnnual, EI_RATE)
      eiAnnual    == MathMin(eiAnnualRaw, Cents(EI_MAX_CONTRIB))
      eiWeekly    == DivInt(eiAnnual, weeksPerYear)
  IN  Contrib(cppWeekly, cpp2Weekly, eiWeekly)

\* the "annualized" branch of calculator.js
AnnualizedBranch(taxableWeekly) ==
  LET annualEarnings == MulInt(taxableWeekly, weeksPerYear)
      cppPensionableAnnual ==
        clamp(Sub(annualEarnings, Dollars(CPP_BASIC_EXEMPTION)), Zero,
              Dollars(CPP_YMPE - CPP_BASIC_EXEMPTION))
      cppAnnualRaw == MulRate(cppPensionableAnnual, CPP_RATE)
      cppAnnual    == MathMin(cppAnnualRaw, Cents(CPP_MAX_CONTRIB))
      cppWeekly    == DivInt(cppAnnual, weeksPerYear)
      cpp2BaseAnnual ==
        clamp(Sub(annualEarnings, Dollars(CPP_YMPE)), Zero, Dollars(CPP2_YAMPE - CPP_YMPE))
      cpp2AnnualRaw == MulRate(cpp2BaseAnnual, CPP2_RATE)
      cpp2Annual    == MathMin(cpp2AnnualRaw, Cents(CPP2_MAX_CONTRIB))
      cpp2Weekly ==
        IF Gt(annualEarnings, Dollars(CPP_YMPE))
        THEN DivInt(cpp2Annual, weeksPerYear) ELSE Zero
      eiInsurableAnnual == MathMin(annualEarnings, Dollars(EI_MAX_INSURABLE))
      eiAnnualRaw == MulRate(eiInsurableAnnual, EI_RATE)
      eiAnnual    == MathMin(eiAnnualRaw, Cents(EI_MAX_CONTRIB))
      eiWeekly    == DivInt(eiAnnual, weeksPerYear)
  IN  Contrib(cppWeekly, cpp2Weekly, eiWeekly)

\* the "early-year" branch of part_000 with the tier-2 amount left annual
\* (`/ weeksPerYear` forgotten)
P0_EarlyYearBranch_Cpp2Annual(taxableWeekly) ==
  LET annualEarnings == MulInt(taxableWeekly, weeksPerYear)
      cppEarningsWeekly ==
        MathMax(Zero, Sub(taxableWeekly, DivInt(Dollars(CPP_BASIC_EXEMPTION), weeksPerYear)))
      cppWeeklyRaw == MulRate(cppEarningsWeekly, CPP_RATE)
      cppWeeklyMax == DivInt(Cents(CPP_MAX_CONTRIB), weeksPerYear)
      cppWeekly    == MathMin(cppWeeklyRaw, cppWeeklyMax)
      excessEarningsAnnual ==
        clamp(Sub(annualEarnings, Dollars(CPP_YMPE)), Zero, Dollars(CPP2_YAMPE - CPP_YMPE))
      cpp2Annual ==
        MathMin(MulRate(excessEarningsAnnual, CPP2_RATE), Cents(CPP2_MAX_CONTRIB))
      cpp2Weekly ==
        IF Gt(annualEarnings, Dollars(CPP_YMPE)) THEN cpp2Annual ELSE Zero
      eiEarningsWeekly ==
        MathMin(taxableWeekly, DivInt(Dollars(EI_MAX_INSURABLE), weeksPerYear))
      eiWeeklyRaw == MulRate(eiEarningsWeekly, EI_RATE)
      eiWeeklyMax == DivInt(Cents(EI_MAX_CONTRIB), weeksPerYear)
      eiWeekly    == MathMin(eiWeeklyRaw, eiWeeklyMax)
  IN  Contrib(cppWeekly, cpp2Weekly, eiWeekly)

\* the "early-year" branch of part_000 (caps taken with Math.min)
P0_EarlyYearBranch(taxableWeekly) ==
  LET annualEarnings == MulInt(taxableWeekly, weeksPerYear)
      cppEarningsWeekly ==
        MathMax(Zero, Sub(taxableWeekly, DivInt(Dollars(CPP_BASIC_EXEMPTION), weeksPerYear)))
      cppWeeklyRaw == MulRate(cppEarningsWeekly, CPP_RATE)
      cppWeeklyMax == DivInt(Cents(CPP_MAX_CONTRIB), weeksPerYear)
      cppWeekly    == MathMin(cppWeeklyRaw, cppWeeklyMax)
      excessEarningsAnnual ==
        clamp(Sub(annualEarnings, Dollars(CPP_YMPE)), Zero, Dollars(CPP2_YAMPE - CPP_YMPE))
      cpp2Annual ==
        MathMin(MulRate(excessEarningsAnnual, CPP2_RATE), Cents(CPP2_MAX_CONTRIB))
      cpp2Weekly ==
        IF Gt(annualEarnings, Dollars(CPP_YMPE))
        THEN DivInt(cpp2Annual, weeksPerYear) ELSE Zero
      eiEarningsWeekly ==
        MathMin(taxableWeekly, DivInt(Dollars(EI_MAX_INSURABLE), weeksPerYear))
      eiWeeklyRaw == MulRate(eiEarningsWeekly, EI_RATE)
      eiWeeklyMax == DivInt(Cents(EI_MAX_CONTRIB), weeksPerYear)
      eiWeekly    == MathMin(eiWeeklyRaw, eiWeeklyMax)
  IN  Contrib(cppWeekly, cpp2Weekly, eiWeekly)

\* calculator.js: mode === "early-year" selects the weekly branch, anything
\* else the annual one
calculateCppEiForWeek(taxableWeekly, mode) ==
  IF mode = "early-year" THEN EarlyYearBranch(taxableWeekly)
  ELSE AnnualizedBranch(taxableWeekly)


(* ---------------- 4. federal + Alberta tax ------------------------------- *)

calculateAnnualFederalTaxGross(annualTaxable) ==
  applyProgressiveTax(annualTaxable, FED_BRACKETS_2025)

calculateAnnualAlbertaTaxGross(annualTaxable) ==
  applyProgressiveTax(annualTaxable, AB_BRACKETS_2025)

\* calculator.js without Math.max(0, ...): the net annual tax is gross - credit
calculateIncomeTaxForWeek_NoFloor(taxableWeekly, cppWeekly, eiWeekly) ==
  LET annualTaxable == MulInt(taxableWeekly, weeksPerYear)
      cppAnnual == MulInt(cppWeekly, weeksPerYear)
      eiAnnual  == MulInt(eiWeekly, weeksPerYear)
      federalGrossAnnual == calculateAnnualFederalTaxGross(annualTaxable)
      federalCreditAnnual ==
        Add(MulRate(Dollars(FED_BPA), FED_CREDIT_RATE),
            MulRate(Add(cppAnnual, eiAnnual), FED_CREDIT_RATE))
      federalNetAnnual == Sub(federalGrossAnnual, federalCreditAnnual)
      federalWeekly    == DivInt(federalNetAnnual, weeksPerYear)
      abGrossAnnual == calculateAnnualAlbertaTaxGross(annualTaxable)
      abCreditAnnual ==
        Add(MulRate(Dollars(AB_BPA), AB_CREDIT_RATE),
            MulRate(Add(cppAnnual, eiAnnual), AB_CREDIT_RATE))
      abNetAnnual == Sub(abGrossAnnual, abCreditAnnual)
      abWeekly    == DivInt(abNetAnnual, weeksPerYear)
  IN  [federalWeekly |-> federalWeekly, abWeekly |-> abWeekly]

\* calculator.js (its fourth parameter, mode, is never read)
calculateIncomeTaxForWeek(taxableWeekly, cppWeekly, eiWeekly) ==
  LET annualTaxable == MulInt(taxableWeekly, weeksPerYear)
      cppAnnual == MulInt(cppWeekly, weeksPerYear)
      eiAnnual  == MulInt(eiWeekly, weeksPerYear)
      federalGrossAnnual == calculateAnnualFederalTaxGross(annualTaxable)
      federalCreditAnnual ==
        Add(MulRate(Dollars(FED_BPA), FED_CREDIT_RATE),
            MulRate(Add(cppAnnual, eiAnnual), FED_CREDIT_RATE))
      federalNetAnnual == MathMax(Zero, Sub(federalGrossAnnual, federalCreditAnnual))
      federalWeekly    == DivInt(federalNetAnnual, weeksPerYear)
      abGrossAnnual == calculateAnnualAlbertaTaxGross(annualTaxable)
      abCreditAnnual ==
        Add(MulRate(Dollars(AB_BPA), AB_CREDIT_RATE),
            MulRate(Add(cppAnnual, eiAnnual), AB_CREDIT_RATE))
      abNetAnnual == MathMax(Zero, Sub(abGrossAnnual, abCreditAnnual))
      abWeekly    == DivInt(abNetAnnual, weeksPerYear)
  IN  [federalWeekly |-> federalWeekly, abWeekly |-> abWeekly]

(* ---------------- part_000: its own copies of the shared text ------------ *)

P0_AnnualizedBranch(taxableWeekly) ==
  LET annualEarnings == MulInt(taxableWeekly, weeksPerYear)
      cppPensionableAnnual ==
        clamp(Sub(annualEarnings, Dollars(CPP_BASIC_EXEMPTION)), Zero,
              Dollars(CPP_YMPE - CPP_BASIC_EXEMPTION))
      cppAnnualRaw == MulRate(cppPensionableAnnual, CPP_RATE)
      cppAnnual    == MathMin(cppAnnualRaw, Cents(CPP_MAX_CONTRIB))
      cppWeekly    == DivInt(cppAnnual, weeksPerYear)
      cpp2BaseAnnual ==
        clamp(Sub(annualEarnings, Dollars(CPP_YMPE)), Zero, Dollars(CPP2_YAMPE - CPP_YMPE))
      cpp2AnnualRaw == MulRate(cpp2BaseAnnual, CPP2_RATE)
      cpp2Annual    == MathMin(cpp2AnnualRaw, Cents(CPP2_MAX_CONTRIB))
      cpp2Weekly ==
        IF Gt(annualEarnings, Dollars(CPP_YMPE))
        THEN DivInt(cpp2Annual, weeksPerYear) ELSE Zero
      eiInsurableAnnual == MathMin(annualEarnings, Dollars(EI_MAX_INSURABLE))
      eiAnnualRaw == MulRate(eiInsurableAnnual, EI_RATE)
      eiAnnual    == MathMin(eiAnnualRaw, Cents(EI_MAX_CONTRIB))
      eiWeekly    == DivInt(eiAnnual, weeksPerYear)
  IN  Contrib(cppWeekly, cpp2Weekly, eiWeekly)

\* part_000 with the Alberta credit taken at the federal credit rate
P0_calculateIncomeTaxForWeek_FedRateForAlberta(taxableWeekly, cppWeekly, eiWeekly) ==
  LET annualTaxable == MulInt(taxableWeekly, weeksPerYear)
      cppAnnual == MulInt(cppWeekly, weeksPerYear)
      eiAnnual  == MulInt(eiWeekly, weeksPerYear)
      federalGrossAnnual == calculateAnnualFederalTaxGross(annualTaxable)
      federalCreditAnnual ==
        Add(MulRate(Dollars(FED_BPA), FED_CREDIT_RATE),
            MulRate(Add(cppAnnual, eiAnnual), FED_CREDIT_RATE))
      federalNetAnnual == MathMax(Zero, Sub(federalGrossAnnual, federalCreditAnnual))
      federalWeekly    == DivInt(federalNetAnnual, weeksPerYear)
      abGrossAnnual == calculateAnnualAlbertaTaxGross(annualTaxable)
      abCreditAnnual ==
        Add(MulRate(Dollars(AB_BPA), FED_CREDIT_RATE),
            MulRate(Add(cppAnnual, eiAnnual), FED_CREDIT_RATE))
      abNetAnnual == MathMax(Zero, Sub(abGrossAnnual, abCreditAnnual))
      abWeekly    == DivInt(abNetAnnual, weeksPerYear)
  IN  [federalWeekly |-> federalWeekly, abWeekly |-> abWeekly]

P0_calculateIncomeTaxForWeek(taxableWeekly, cppWeekly, eiWeekly) ==
  LET annualTaxable == MulInt(taxableWeekly, weeksPerYear)
      cppAnnual == MulInt(cppWeekly, weeksPerYear)
      eiAnnual  == MulInt(eiWeekly, weeksPerYear)
      federalGrossAnnual == calculateAnnualFederalTaxGross(annualTaxable)
      federalCreditAnnual ==
        Add(MulRate(Dollars(FED_BPA), FED_CREDIT_RATE),
            MulRate(Add(cppAnnual, eiAnnual), FED_CREDIT_RATE))
      federalNetAnnual == MathMax(Zero, Sub(federalGrossAnnual, federalCreditAnnual))
      federalWeekly    == DivInt(federalNetAnnual, weeksPerYear)
      abGrossAnnual == calculateAnnualAlbertaTaxGross(annualTaxable)
      abCreditAnnual ==
        Add(MulRate(Dollars(AB_BPA), AB_CREDIT_RATE),
            MulRate(Add(cppAnnual, eiAnnual), AB_CREDIT_RATE))
      abNetAnnual == MathMax(Zero, Sub(abGrossAnnual, abCreditAnnual))
      abWeekly    == DivInt(abNetAnnual, weeksPerYear)
  IN  [federalWeekly |-> federalWeekly, abWeekly |-> abWeekly]

\* part_000: mode === "annualized" selects the annual branch, anything else
\* the weekly one
P0_calculateCppEiForWeek(taxableWeekly, mode) ==
  IF mode = "annualized" THEN P0_AnnualizedBranch(taxableWeekly)
  ELSE P0_EarlyYearBranch(taxableWeekly)

(* ---------------- 5. main entry function --------------------------------- *)
\* argument values as the caller passes them:
\*   an amount  [t |-> "number", v |-> whole cents], or undefined, or null;
\*   the third argument  undefined, null, a string s, or an object whose
\*   properties taxMode and unionDuesRate are each absent (<<>>) or present.

JsNumber(c) == [t |-> "number", v |-> c]
JsUndefinedAmount == [t |-> "undefined", v |-> 0]
JsNullAmount == [t |-> "null", v |-> 0]

JsUndefined == [t |-> "undefined", s |-> "", taxMode |-> <<>>, unionDuesRate |-> <<>>]
JsNull == [t |-> "null", s |-> "", taxMode |-> <<>>, unionDuesRate |-> <<>>]
JsString(s) == [t |-> "string", s |-> s, taxMode |-> <<>>, unionDuesRate |-> <<>>]
JsObject(taxMode, unionDuesRate) ==
  [t |-> "object", s |-> "", taxMode |-> taxMode, unionDuesRate |-> unionDuesRate]

\* the numeric value of an amount argument inside an arithmetic expression
ToNumber(a) ==
  IF a.t = "number" THEN Cents(a.v)
  ELSE IF a.t = "null" THEN Zero
  ELSE NaN

Fields ==
  {"cpp", "cpp2", "ei", "federalTax", "albertaTax", "unionDues",
   "totalDeductions", "netTaxableOnly", "netPayTotal"}

NoRecord == [none |-> TRUE]

\* what a call leaves behind: the record it returned, or the error it threw;
\* taxMode is the mode handed to calculateCppEiForWeek ("" when none was)
Returned(taxMode, record) == [outcome |-> "returned", taxMode |-> taxMode, record |-> record]
Threw(error) == [outcome |-> error, taxMode |-> "", record |-> NoRecord]

\* steps 3) to 5) and the return statement, the same text in both files: the
\* dues, the sum of the deductions, the two nets, and the record
Breakdown(taxMode, tw, c, tax, unionDuesRate, nonTaxable) ==
  With(MulRate(tw, unionDuesRate), LAMBDA unionDues :
  With(Add(Add(Add(Add(Add(c.cpp, c.cpp2), c.ei), tax.federalWeekly), tax.abWeekly),
           unionDues), LAMBDA totalDeductions :
  With(Sub(tw, totalDeductions), LAMBDA netTaxableOnly :
  With(Add(netTaxableOnly, nonTaxable), LAMBDA netPayTotal :
    Returned(taxMode,
      [cpp |-> c.cpp, cpp2 |-> c.cpp2, ei |-> c.ei,
       federalTax |-> tax.federalWeekly, albertaTax |-> tax.abWeekly,
       unionDues |-> unionDues, totalDeductions |-> totalDeductions,
       netTaxableOnly |-> netTaxableOnly, netPayTotal |-> netPayTotal])))))

\* calculator.js with both pension tiers passed as the credit input
calculateDeductionsForWeek_Cpp2InCredit(taxableWeekly, nonTaxableWeekly, options) ==
  LET nonTaxable == IF nonTaxableWeekly.t = "undefined" THEN JsNumber(0) ELSE nonTaxableWeekly
      opts       == IF options.t = "undefined" THEN JsObject(<<>>, <<>>) ELSE options
  IN
  IF opts.t = "null" THEN Threw("TypeError")
  ELSE
  LET unionDuesRate ==
        IF opts.t = "object" /\ opts.unionDuesRate # <<>>
        THEN opts.unionDuesRate[1] ELSE DEFAULT_UNION_DUES_RATE
      taxMode ==
        IF opts.t = "object" /\ opts.taxMode = <<"annualized">>
        THEN "annualized" ELSE "early-year"
  IN  With(ToNumber(taxableWeekly), LAMBDA tw :
      With(calculateCppEiForWeek(tw, taxMode), LAMBDA c :
      With(calculateIncomeTaxForWeek(tw, Add(c.cpp, c.cpp2), c.ei), LAMBDA tax :
        Breakdown(taxMode, tw, c, tax, unionDuesRate, ToNumber(nonTaxable)))))

\* calculator.js
calculateDeductionsForWeek(taxableWeekly, nonTaxableWeekly, options) ==
  LET nonTaxable == IF nonTaxableWeekly.t = "undefined" THEN JsNumber(0) ELSE nonTaxableWeekly
      opts       == IF options.t = "undefined" THEN JsObject(<<>>, <<>>) ELSE options
  IN
  IF opts.t = "null" THEN Threw("TypeError")
  ELSE
  LET unionDuesRate ==
        IF opts.t = "object" /\ opts.unionDuesRate # <<>>
        THEN opts.unionDuesRate[1] ELSE DEFAULT_UNION_DUES_RATE
      taxMode ==
        IF opts.t = "object" /\ opts.taxMode = <<"annualized">>
        THEN "annualized" ELSE "early-year"
  IN  With(ToNumber(taxableWeekly), LAMBDA tw :
      With(calculateCppEiForWeek(tw, taxMode), LAMBDA c :
      With(calculateIncomeTaxForWeek(tw, c.cpp, c.ei), LAMBDA tax :
        Breakdown(taxMode, tw, c, tax, unionDuesRate, ToNumber(nonTaxable)))))

\* part_000 with `|| 0` dropped from the last sum: a missing nonTaxableWeekly
\* is added as it is
P0_calculateDeductionsForWeek_NoOrZero(taxableWeekly, nonTaxableWeekly, taxMode) ==
  LET mode ==
        IF taxMode.t = "string" /\ taxMode.s = "annualized"
        THEN "annualized" ELSE "early-year"
  IN  With(ToNumber(taxableWeekly), LAMBDA tw :
      With(P0_calculateCppEiForWeek(tw, mode), LAMBDA c :
      With(P0_calculateIncomeTaxForWeek(tw, c.cpp, c.ei), LAMBDA tax :
        Breakdown(mode, tw, c, tax, UNION_DUES_RATE, ToNumber(nonTaxableWeekly)))))

\* part_000 with the normalisation turned round: "early-year" is recognised
\* and everything else is taken as "annualized"
P0_calculateDeductionsForWeek_DefaultAnnualized(taxableWeekly, nonTaxableWeekly, taxMode) ==
  LET mode ==
        IF taxMode.t = "string" /\ taxMode.s = "early-year"
        THEN "early-year" ELSE "annualized"
      nonTaxableOrZero ==
        IF nonTaxableWeekly.t = "number" THEN Cents(nonTaxableWeekly.v) ELSE Zero
  IN  With(ToNumber(taxableWeekly), LAMBDA tw :
      With(P0_calculateCppEiForWeek(tw, mode), LAMBDA c :
      With(P0_calculateIncomeTaxForWeek(tw, c.cpp, c.ei), LAMBDA tax :
        Breakdown(mode, tw, c, tax, UNION_DUES_RATE, nonTaxableOrZero))))

\* part_000
P0_calculateDeductionsForWeek(taxableWeekly, nonTaxableWeekly, taxMode) ==
  LET mode ==
        IF taxMode.t = "string" /\ taxMode.s = "annualized"
        THEN "annualized" ELSE "early-year"
      \* nonTaxableWeekly || 0: undefined, null and 0 all give 0
      nonTaxableOrZero ==
        IF nonTaxableWeekly.t = "number" THEN Cents(nonTaxableWeekly.v) ELSE Zero
  IN  With(ToNumber(taxableWeekly), LAMBDA tw :
      With(P0_calculateCppEiForWeek(tw, mode), LAMBDA c :
      With(P0_calculateIncomeTaxForWeek(tw, c.cpp, c.ei), LAMBDA tax :
        Breakdown(mode, tw, c, tax, UNION_DUES_RATE, nonTaxableOrZero))))

(* ---------------- the calls the model makes ------------------------------ *)

\* either file's window.BoilerTaxEngine.calculateDeductionsForWeek
Run(e, taxableWeekly, nonTaxableWeekly, third) ==
  IF e = "calculator.js"
  THEN calculateDeductionsForWeek(taxableWeekly, nonTaxableWeekly, third)
  ELSE P0_calculateDeductionsForWeek(taxableWeekly, nonTaxableWeekly, third)

\* bounds of the input grid: taxableWeekly runs over the multiples of GridStep
\* cents from -GridStep to MaxSteps * GridStep
GridStep == 50000
MaxSteps == 15

\* annual dollar amounts at which some formula changes slope: the exemption,
\* the ceilings, the personal amounts and the bracket limits
Thresholds ==
  {CPP_BASIC_EXEMPTION, CPP_YMPE, CPP2_YAMPE, EI_MAX_INSURABLE, FED_BPA, AB_BPA,
   57375, 114750, 177882, 253414, 60000, 151234, 181481, 241974, 362961}

\* the weekly amounts, in cents, just below and just above each threshold / 52
KinkCents == UNION {{(T * 100) \div 52, (T * 100) \div 52 + 1} : T \in Thresholds}

\* the amounts the specification names: $100, $1400, $1500, $100000
NamedCents == {10000, 140000, 150000, 10000000}

TaxableCents == {k * GridStep : k \in -1 .. MaxSteps} \cup KinkCents \cup NamedCents \cup {1}

TaxableArgs == {JsNumber(c) : c \in TaxableCents} \cup {JsUndefinedAmount}

NonTaxableArgs == {JsUndefinedAmount, JsNullAmount, JsNumber(0), JsNumber(12345)}

ModeStrings == {"early-year", "annualized", "weekly"}

OptionsObjects ==
  {JsObject(m, d) : m \in {<<>>} \cup {<<x>> : x \in ModeStrings}, d \in {<<>>, <<500>>}}

ModeArgs == {JsUndefined, JsNull} \cup {JsString(x) : x \in ModeStrings} \cup OptionsObjects

Engines == {"calculator.js", "part_000"}

Pending == [outcome |-> "pending", taxMode |-> "", record |-> NoRecord]

\* bounds of the bracket schedules the loop is run on, besides the two of the
\* program: the finite limits are drawn from LimitStep, 2 * LimitStep, ...,
\* MaxLimits * LimitStep dollars
LimitStep == 10
MaxLimits == 3

LimitChoices == SUBSET {k * LimitStep : k \in 1 .. MaxLimits}

RECURSIVE Ascending(_)
\* the members of a set of dollar amounts as an ascending sequence of limits
Ascending(S) ==
  IF S = {} THEN <<>>
  ELSE LET lo == CHOOSE x \in S : \A y \in S : x <= y
       IN  <<Dollars(lo)>> \o Ascending(S \ {lo})

RateChoices == {1000, 2500}

\* strictly ascending finite limits, then the unbounded bracket
Schedules ==
  {FED_BRACKETS_2025, AB_BRACKETS_2025} \cup
  UNION { LET limits == Ascending(S) \o <<Infinity>>
          IN  {[i \in 1 .. Len(limits) |-> Bracket(limits[i], rates[i])] :
                 rates \in [1 .. Len(limits) -> RateChoices]}
          : S \in LimitChoices }

Incomes ==
  {MulInt(Cents(c), weeksPerYear) : c \in TaxableCents} \cup
  {Dollars(d) : d \in {-5, 0} \cup {k * LimitStep + j : k \in 0 .. MaxLimits, j \in {0, 5}}}

LoopIdle == [phase |-> "idle", income |-> Zero, brackets |-> <<>>, i |-> 0, st |-> LoopStart(Zero)]

VARIABLES engine, argTaxable, argNonTaxable, argMode, call, loop

vars == <<engine, argTaxable, argNonTaxable, argMode, call, loop>>

\* a caller has bound the three arguments of window.BoilerTaxEngine's function
Init ==
  /\ engine \in Engines
  /\ argTaxable \in TaxableArgs
  /\ argNonTaxable \in NonTaxableArgs
  /\ argMode \in ModeArgs
  /\ call = Pending
  /\ loop = LoopIdle

RunCalculator ==
  /\ engine = "calculator.js"
  /\ call.outcome = "pending"
  /\ call' = calculateDeductionsForWeek(argTaxable, argNonTaxable, argMode)
  /\ UNCHANGED <<engine, argTaxable, argNonTaxable, argMode, loop>>

RunPart000 ==
  /\ engine = "part_000"
  /\ call.outcome = "pending"
  /\ call' = P0_calculateDeductionsForWeek(argTaxable, argNonTaxable, argMode)
  /\ UNCHANGED <<engine, argTaxable, argNonTaxable, argMode, loop>>

Next == RunCalculator \/ RunPart000

Spec == Init /\ [][Next]_vars

\* the same calls, over the arguments that select each mode in each engine
\* (the comparison of a call with the calls at every larger amount is made
\* under this specification)
InitMono ==
  /\ engine \in Engines
  /\ argTaxable \in TaxableArgs
  /\ argNonTaxable \in {JsUndefinedAmount, JsNumber(12345)}
  /\ argMode \in {JsUndefined, JsString("early-year"), JsString("annualized"),
                  JsObject(<<"early-year">>, <<>>), JsObject(<<"annualized">>, <<500>>)}
  /\ call = Pending
  /\ loop = LoopIdle

SpecMono == InitMono /\ [][Next]_vars

(* ---------------- applyProgressiveTax, one bracket at a time -------------- *)

\* applyProgressiveTax has been entered with an income and a schedule
InitLoop ==
  /\ engine = "calculator.js"
  /\ argTaxable = JsUndefinedAmount
  /\ argNonTaxable = JsUndefinedAmount
  /\ argMode = JsUndefined
  /\ call = Pending
  /\ \E income \in Incomes, brackets \in Schedules :
       loop = [phase |-> "loop", income |-> income, brackets |-> brackets,
               i |-> 1, st |-> LoopStart(income)]

\* the loop body on the next bracket (the break included)
LoopBody ==
  /\ loop.phase = "loop"
  /\ loop.i <= Len(loop.brackets)
  /\ ~loop.st.brk
  /\ loop' = [loop EXCEPT !.st = BracketStep(loop.st, loop.brackets[loop.i]),
                          !.i = loop.i + 1]
  /\ UNCHANGED <<engine, argTaxable, argNonTaxable, argMode, call>>

\* the schedule is exhausted or the loop was left: return tax
LoopReturn ==
  /\ loop.phase = "loop"
  /\ (loop.i > Len(loop.brackets) \/ loop.st.brk)
  /\ loop' = [loop EXCEPT !.phase = "returned"]
  /\ UNCHANGED <<engine, argTaxable, argNonTaxable, argMode, call>>

NextLoop == LoopBody \/ LoopReturn

SpecLoop == InitLoop /\ [][NextLoop]_vars

(* ---------------- properties --------------------------------------------- *)

IsReturned == call.outcome = "returned"
NumericTaxable == argTaxable.t = "number"
NonNegativeTaxable == argTaxable.t = "number" /\ argTaxable.v >= 0

\* the amounts the caller passed
TW == ToNumber(argTaxable)
NT == IF argNonTaxable.t = "number" THEN Cents(argNonTaxable.v) ELSE Zero

\* every amount in a returned record is a whole number of units: the exact
\* arithmetic of the model never had to round
ArithmeticExact ==
  IsReturned => \A f \in Fields : call.record[f].k # "inexact"

\* cpp + cpp2 + ei + federalTax + albertaTax + unionDues of a record
SumOfDeductions(r) ==
  Add(Add(Add(Add(Add(r.cpp, r.cpp2), r.ei), r.federalTax), r.albertaTax), r.unionDues)

\* C1: for a numeric taxableWeekly, any nonTaxableWeekly and either engine and
\* mode, the returned record has totalDeductions = the sum of its six
\* deductions, netTaxableOnly = taxableWeekly - totalDeductions, and
\* netPayTotal = taxableWeekly - (the six deductions) + nonTaxableWeekly, a
\* missing nonTaxableWeekly counting as 0.
C1_NetPayIdentity ==
  (IsReturned /\ NumericTaxable) =>
    LET r == call.record
    IN  /\ Eq(r.totalDeductions, SumOfDeductions(r))
        /\ Eq(r.netTaxableOnly, Sub(TW, r.totalDeductions))
        /\ Eq(r.netPayTotal, Add(Sub(TW, SumOfDeductions(r)), NT))

\* part_000 returned for a positive taxableWeekly with nonTaxableWeekly missing
C1_Witness ==
  /\ IsReturned
  /\ engine = "part_000"
  /\ argNonTaxable.t = "undefined"
  /\ NumericTaxable
  /\ Gt(call.record.totalDeductions, Zero)
  /\ Eq(call.record.netPayTotal, call.record.netTaxableOnly)

CppWeeklyCap == DivInt(Cents(CPP_MAX_CONTRIB), weeksPerYear)
Cpp2WeeklyCap == DivInt(Cents(CPP2_MAX_CONTRIB), weeksPerYear)
EiWeeklyCap == DivInt(Cents(EI_MAX_CONTRIB), weeksPerYear)

\* C2: for taxableWeekly >= 0, in both modes, cpp, cpp2 and ei are each >= 0
\* and at most the statutory annual maximum divided by 52.
C2_ContributionsWithinCaps ==
  (IsReturned /\ NonNegativeTaxable) =>
    LET r == call.record
    IN  /\ Ge(r.cpp, Zero)  /\ Le(r.cpp, CppWeeklyCap)
        /\ Ge(r.cpp2, Zero) /\ Le(r.cpp2, Cpp2WeeklyCap)
        /\ Ge(r.ei, Zero)   /\ Le(r.ei, EiWeeklyCap)

\* early-year mode of calculator.js at $100000 a week: the uncapped tier-1
\* product is far above the cap, and the record carries the cap
C2_Witness ==
  /\ IsReturned
  /\ engine = "calculator.js"
  /\ call.taxMode = "early-year"
  /\ argTaxable = JsNumber(10000000)
  /\ Gt(MulRate(TW, CPP_RATE), MulInt(CppWeeklyCap, 2))
  /\ Eq(call.record.cpp, CppWeeklyCap)

\* totalDeductions of the call that differs from the current one in
\* taxableWeekly only
TotalAt(b) == Run(engine, JsNumber(b), argNonTaxable, argMode).record.totalDeductions

\* C3: for a fixed engine, mode argument and nonTaxableWeekly, totalDeductions
\* is non-decreasing in taxableWeekly >= 0: the call made with a is compared
\* with the call made with every b >= a of the grid.
C3_TotalDeductionsMonotone ==
  (IsReturned /\ NonNegativeTaxable) =>
    \A b \in TaxableCents :
      b >= argTaxable.v => Le(call.record.totalDeductions, TotalAt(b))

\* a call in annualized mode above the first federal bracket limit, with a
\* larger amount on the grid whose totalDeductions is strictly larger
C3_Witness ==
  /\ IsReturned
  /\ call.taxMode = "annualized"
  /\ NonNegativeTaxable
  /\ argTaxable.v * weeksPerYear > 5737500
  /\ \E b \in TaxableCents :
       b > argTaxable.v /\ Lt(call.record.totalDeductions, TotalAt(b))

\* the gross annual tax and the annual credit behind a record's weekly tax
GrossAnnual(brackets) == applyProgressiveTax(MulInt(TW, weeksPerYear), brackets)
CreditAnnual(r, bpa, creditRate) ==
  MulRate(Add(Add(Dollars(bpa), MulInt(r.cpp, weeksPerYear)), MulInt(r.ei, weeksPerYear)),
          creditRate)

\* C4: for taxableWeekly >= 0, federalTax and albertaTax are >= 0, are exactly
\* 0 whenever the gross annual tax is below the annual credit, and are both 0
\* at taxableWeekly = 100.
C4_TaxNeverNegative ==
  (IsReturned /\ NonNegativeTaxable) =>
    LET r == call.record
    IN  /\ Ge(r.federalTax, Zero)
        /\ Ge(r.albertaTax, Zero)
        /\ Lt(GrossAnnual(FED_BRACKETS_2025), CreditAnnual(r, FED_BPA, FED_CREDIT_RATE))
             => Eq(r.federalTax, Zero)
        /\ Lt(GrossAnnual(AB_BRACKETS_2025), CreditAnnual(r, AB_BPA, AB_CREDIT_RATE))
             => Eq(r.albertaTax, Zero)
        /\ argTaxable.v = 10000 => (Eq(r.federalTax, Zero) /\ Eq(r.albertaTax, Zero))

\* calculator.js at $100 a week: a positive gross tax below the credit, and
\* both weekly taxes 0
C4_Witness ==
  /\ IsReturned
  /\ engine = "calculator.js"
  /\ argTaxable = JsNumber(10000)
  /\ Gt(GrossAnnual(FED_BRACKETS_2025), Zero)
  /\ Lt(GrossAnnual(FED_BRACKETS_2025),
        CreditAnnual(call.record, FED_BPA, FED_CREDIT_RATE))
  /\ Eq(call.record.federalTax, Zero)
  /\ Eq(call.record.albertaTax, Zero)

\* C5: calculator.js called with the bare string "early-year" or "annualized"
\* ends as the call with { taxMode: that string } ends: the same record, and
\* the same contribution branch selected.
C5_BareStringIsSugar ==
  (/\ engine = "calculator.js"
   /\ call.outcome # "pending"
   /\ argMode.t = "string"
   /\ argMode.s \in {"early-year", "annualized"}) =>
    call = calculateDeductionsForWeek(argTaxable, argNonTaxable, JsObject(<<argMode.s>>, <<>>))

\* the third argument is omitted, an unrecognized string, or an options record
\* whose taxMode is absent or unrecognized
UnrecognizedMode ==
  \/ argMode.t = "undefined"
  \/ argMode.t = "string" /\ argMode.s \notin {"early-year", "annualized"}
  \/ argMode.t = "object" /\ argMode.taxMode \notin {<<"early-year">>, <<"annualized">>}

\* "early-year" passed explicitly, in the form the engine takes it (calculator.js:
\* in the options record, beside the unionDuesRate of the call, if any)
ExplicitEarlyYear ==
  IF engine = "calculator.js"
  THEN JsObject(<<"early-year">>, argMode.unionDuesRate)
  ELSE JsString("early-year")

\* C6: with the mode omitted or unrecognized, the call ends exactly as the call
\* that passes "early-year" explicitly: the early-year branch is selected and
\* the same record returned.
C6_DefaultsToEarlyYear ==
  (call.outcome # "pending" /\ UnrecognizedMode) =>
    call = Run(engine, argTaxable, argNonTaxable, ExplicitEarlyYear)

\* part_000 returned for the unrecognized string "weekly" in the early-year branch
C6_Witness ==
  /\ IsReturned
  /\ engine = "part_000"
  /\ argMode = JsString("weekly")
  /\ NumericTaxable
  /\ call.taxMode = "early-year"
  /\ Gt(call.record.cpp, Zero)

\* C7: whatever the three arguments, the call completes and returns a record
\* with the nine fields; it never raises an error.
C7_AlwaysReturnsRecord ==
  call.outcome # "pending" =>
    (call.outcome = "returned" /\ DOMAIN call.record = Fields)

\* C8: in both modes, once taxableWeekly * 52 >= CPP2_YAMPE, cpp, cpp2 and ei
\* are exactly the annual maxima divided by 52.
C8_CapsReachedExactly ==
  (IsReturned /\ NumericTaxable /\ argTaxable.v * weeksPerYear >= CPP2_YAMPE * 100) =>
    /\ Eq(call.record.cpp, CppWeeklyCap)
    /\ Eq(call.record.cpp2, Cpp2WeeklyCap)
    /\ Eq(call.record.ei, EiWeeklyCap)

\* part_000 in early-year mode just above the last ceiling
C8_Witness ==
  /\ IsReturned
  /\ engine = "part_000"
  /\ call.taxMode = "early-year"
  /\ argTaxable = JsNumber((CPP2_YAMPE * 100) \div weeksPerYear + 1)
  /\ Eq(call.record.cpp2, Cpp2WeeklyCap)

\* max(0, gross - (BPA + cpp * 52 + ei * 52) * creditRate) / 52
WeeklyTax(r, brackets, bpa, creditRate) ==
  DivInt(MathMax(Zero, Sub(GrossAnnual(brackets), CreditAnnual(r, bpa, creditRate))),
         weeksPerYear)

\* C9: each weekly tax of a record is max(0, applyProgressiveTax(taxableWeekly
\* * 52, brackets) - (BPA + cpp * 52 + ei * 52) * creditRate) / 52 for the cpp
\* and ei of the same record; cpp2 is no part of the credit.
C9_TaxFromTier1AndInsurance ==
  (IsReturned /\ NumericTaxable) =>
    /\ Eq(call.record.federalTax,
          WeeklyTax(call.record, FED_BRACKETS_2025, FED_BPA, FED_CREDIT_RATE))
    /\ Eq(call.record.albertaTax,
          WeeklyTax(call.record, AB_BRACKETS_2025, AB_BPA, AB_CREDIT_RATE))

\* calculator.js returned a record with a tier-2 amount and both taxes positive
C9_Witness ==
  /\ IsReturned
  /\ engine = "calculator.js"
  /\ Gt(call.record.cpp2, Zero)
  /\ Gt(call.record.federalTax, Zero)
  /\ Gt(call.record.albertaTax, Zero)

RECURSIVE SliceSum(_, _, _)
\* the sum over the brackets i..Len(brackets) of
\* rate_i * max(0, min(income, limit_i) - limit_(i-1)), with limit_0 = 0
SliceSum(income, brackets, i) ==
  IF i > Len(brackets) THEN Zero
  ELSE LET below == IF i = 1 THEN Zero ELSE brackets[i - 1].limit
           slice == MathMax(Zero, Sub(MathMin(income, brackets[i].limit), below))
       IN  Add(MulRate(slice, brackets[i].rate), SliceSum(income, brackets, i + 1))

LoopResult ==
  loop.phase = "returned" =>
    /\ Eq(loop.st.tax, SliceSum(loop.income, loop.brackets, 1))
    /\ Le(loop.income, Zero) => Eq(loop.st.tax, Zero)

\* C10: on a schedule of strictly ascending limits ending in an unbounded one,
\* applyProgressiveTax terminates (the loop is at a bracket of the schedule or
\* one past the last, and every step it takes either returns or moves to the
\* next bracket), and what it returns is the sum over the brackets of
\* rate_i * max(0, min(income, limit_i) - limit_(i-1)), which is 0 for every
\* income <= 0.
C10_ProgressiveTaxIsSliceSum ==
  /\ [](/\ loop.phase \in {"loop", "returned"}
        /\ loop.i >= 1 /\ loop.i <= Len(loop.brackets) + 1
        /\ LoopResult)
  /\ [][loop.phase = "loop" /\ (loop'.phase = "returned" \/ loop'.i = loop.i + 1)]_vars

\* the federal schedule has been walked into its third bracket and the loop
\* has returned a positive tax
C10_Witness ==
  /\ loop.phase = "returned"
  /\ loop.brackets = FED_BRACKETS_2025
  /\ loop.st.brk
  /\ Eq(loop.st.lastLimit, Dollars(177882))
  /\ Gt(loop.st.tax, Zero)

\* two amounts are the same value (NaN, which a missing taxableWeekly leaves
\* in a record, being the same as NaN)
SameAmount(x, y) == (IsNaN(x) /\ IsNaN(y)) \/ Eq(x, y)

SameRecord(r, q) == \A f \in Fields : SameAmount(r[f], q[f])

\* the mode the current call did not run in, and the call that differs from
\* the current one in the mode only
OtherMode == IF call.taxMode = "early-year" THEN "annualized" ELSE "early-year"
InOtherMode ==
  Run(engine, argTaxable, argNonTaxable,
      IF engine = "calculator.js" THEN JsObject(<<OtherMode>>, argMode.unionDuesRate)
      ELSE JsString(OtherMode))

\* C11: in exact arithmetic, for every taxableWeekly the call made in the other
\* mode runs the other branch of calculateCppEiForWeek and returns the same
\* record, cpp, cpp2 and ei included: the two modes differ by zero.
C11_ModesAgreeExactly ==
  IsReturned =>
    With(InOtherMode, LAMBDA other :
      /\ other.outcome = "returned"
      /\ other.taxMode = OtherMode
      /\ \A f \in Fields : call.record[f].k # "inexact" /\ other.record[f].k # "inexact"
      /\ SameRecord(call.record, other.record))

\* calculator.js in annualized mode at $100 a week (above the weekly share of
\* the exemption, below the ceiling): a tier-1 amount between 0 and its cap,
\* equal to what the early-year branch computes
C11_Witness ==
  /\ IsReturned
  /\ engine = "calculator.js"
  /\ call.taxMode = "annualized"
  /\ argTaxable = JsNumber(10000)
  /\ Gt(call.record.cpp, Zero)
  /\ Lt(call.record.cpp, CppWeeklyCap)
  /\ Eq(call.record.cpp, EarlyYearBranch(TW).cpp)

\* the mode of a call both engines can be given: part_000 was passed the
\* string m, or calculator.js the record { taxMode: m } with no unionDuesRate,
\* for m "early-year" or "annualized" (<<m>>; <<>> for any other call)
CommonMode ==
  IF engine = "part_000"
  THEN IF argMode.t = "string" /\ argMode.s \in {"early-year", "annualized"}
       THEN <<argMode.s>> ELSE <<>>
  ELSE IF /\ argMode.t = "object"
          /\ argMode.unionDuesRate = <<>>
          /\ argMode.taxMode \in {<<"early-year">>, <<"annualized">>}
       THEN argMode.taxMode ELSE <<>>

\* the same call made to the other engine, in the form that engine takes the mode
InOtherEngine ==
  IF engine = "part_000"
  THEN calculateDeductionsForWeek(argTaxable, argNonTaxable, JsObject(CommonMode, <<>>))
  ELSE P0_calculateDeductionsForWeek(argTaxable, argNonTaxable, JsString(CommonMode[1]))

\* C12: for every taxableWeekly, every nonTaxableWeekly (missing included) and
\* each of the two modes m, part_000 called with the string m and calculator.js
\* called with { taxMode: m } and no unionDuesRate both return, in the same
\* mode, records equal in all nine fields.
C12_EnginesAgree ==
  (call.outcome # "pending" /\ CommonMode # <<>>) =>
    With(InOtherEngine, LAMBDA other :
      /\ IsReturned
      /\ other.outcome = "returned"
      /\ other.taxMode = call.taxMode
      /\ call.taxMode = CommonMode[1]
      /\ SameRecord(call.record, other.record))

\* part_000 returned in annualized mode for an amount above the first federal
\* bracket with a nonTaxableWeekly: every deduction is positive, and the
\* calculator.js record carries the same netPayTotal
C12_Witness ==
  /\ IsReturned
  /\ engine = "part_000"
  /\ argMode = JsString("annualized")
  /\ argNonTaxable = JsNumber(12345)
  /\ argTaxable = JsNumber(150000)
  /\ Gt(call.record.cpp2, Zero)
  /\ Gt(call.record.federalTax, Zero)
  /\ Gt(call.record.albertaTax, Zero)
  /\ Eq(call.record.netPayTotal, InOtherEngine.record.netPayTotal)

====
